---- MODULE Spec2Model ----
(***************************************************************************)
(* Model of utils/zpe-updater/zpu_client.go: the policy updater           *)
(* (PolicyUpdater, GetPolicies, GetEtagForExistingPolicy,                  *)
(* ValidateSignedPolicies, WritePolicies) running against a file system,  *)
(* a clock, a ZTS server, a ZMS key service and a concurrent reader of    *)
(* the policy files; and the metrics step (PostAllDomainMetric,           *)
(* aggregateAllDomainMetrics, buildDomainMetrics,                          *)
(* deleteDomainMetricFiles) running against the metrics directory and     *)
(* the producers of its files.                                             *)
(***************************************************************************)
EXTENDS Integers, Sequences, FiniteSets, TLC

(* ---------------- bounds ---------------- *)

\* longest configured domain list
MaxDomains == 2
\* the clock runs from 0 to MaxTime
MaxTime == 1

(* ---------------- values ---------------- *)

Domains == {"a", "b"}

NoErr == "nil"
NoKey == <<>>
NoEtag == <<>>
NoData == [nil |-> TRUE]

(* ---------------- strings ---------------- *)

RECURSIVE Join(_)
\* the comma separated text of a list of domain names
Join(s) ==
    IF Len(s) = 0 THEN <<>>
    ELSE IF Len(s) = 1 THEN <<s[1]>>
    ELSE <<s[1], ",">> \o Join(Tail(s))

RECURSIVE SplitFrom(_, _, _)
SplitFrom(str, i, acc) ==
    IF i > Len(str) THEN <<acc>>
    ELSE IF str[i] = "," THEN <<acc>> \o SplitFrom(str, i + 1, <<>>)
    ELSE SplitFrom(str, i + 1, acc \o <<str[i]>>)

\* strings.Split(str, ","): the pieces between the commas; every piece is
\* one domain name (domain names are single tokens here)
Split(str) ==
    LET pieces == SplitFrom(str, 1, <<>>)
    IN  [i \in 1..Len(pieces) |->
            IF Len(pieces[i]) = 1 THEN pieces[i][1] ELSE ""]

\* fmt.Sprintf("%s/%s.pol", dir, domain) and its .tmp sibling
policyFile(policyFileDir, dom) == <<policyFileDir, "/", dom, ".pol">>
\* the temp file placed at the final path itself
tempPolicyFile_final(tempPolicyFileDir, dom) == <<"pol", "/", dom, ".pol">>
tempPolicyFile(tempPolicyFileDir, dom) == <<tempPolicyFileDir, "/", dom, ".tmp">>

(* ---------------- signatures and bundles ---------------- *)

\* a signature made with the private key of `key` over `input`
Sign(key, input) == [by |-> key, over |-> input]

\* util.ToCanonicalString of the policy payload and of the signed policy data
CanonicalPolicyData(policyData) == <<"policyData", policyData>>
CanonicalSignedPolicyData(s) ==
    <<"signedPolicyData", s.expires, s.modified, s.policyData, s.zmsKeyId, s.zmsSignature>>

\* a bundle as ZMS and ZTS produce it
NewSignedPolicyData(policyData, expires, modified, zmsKeyId) ==
    [policyData |-> policyData, expires |-> expires, modified |-> modified,
     zmsKeyId |-> zmsKeyId,
     zmsSignature |-> Sign(<<"zms", zmsKeyId>>, CanonicalPolicyData(policyData))]
NewDomainSignedPolicyData(s, keyId) ==
    [signedPolicyData |-> s, keyId |-> keyId,
     signature |-> Sign(<<"zts", keyId>>, CanonicalSignedPolicyData(s))]

GoodBundle(expires, modified, keyId) ==
    NewDomainSignedPolicyData(NewSignedPolicyData("p1", expires, modified, keyId), keyId)

\* payload changed after signing
TamperedBundle == [GoodBundle(2, 1, "0") EXCEPT !.signedPolicyData.policyData = "p2"]
\* outer signature made with a key that is not the ZTS key
BadOuterBundle == [GoodBundle(2, 1, "0") EXCEPT !.signature.by = <<"evil", "0">>]
\* ZTS signed a payload whose ZMS signature is forged
BadInnerBundle ==
    NewDomainSignedPolicyData(
        [NewSignedPolicyData("p2", 2, 1, "0") EXCEPT !.zmsSignature.by = <<"evil", "0">>], "0")

\* outer signature forged on a bundle that expires early and names a key
\* the configuration does not hold
ForgedShortBundle == [GoodBundle(0, 1, "1") EXCEPT !.signature.by = <<"evil", "1">>]

Bundles ==
    {GoodBundle(0, 1, "1"), GoodBundle(2, 1, "0"), GoodBundle(2, 0, "0")}
    \cup {TamperedBundle, BadOuterBundle, BadInnerBundle, ForgedShortBundle}

(* ---------------- file contents ---------------- *)

NoFile == [kind |-> "none", bundle |-> NoData]
Garbage == [kind |-> "garbage", bundle |-> NoData]
\* json.Marshal(&data)
Marshal(data) == [kind |-> "json", bundle |-> data]
\* the leading part of Marshal(data), as a write in progress leaves it
Partial(data) == [kind |-> "partial", bundle |-> data]
\* json.NewDecoder(f).Decode(&domainSignedPolicyData)
Decode(content) ==
    IF content.kind = "json" THEN [err |-> FALSE, data |-> content.bundle]
    ELSE [err |-> TRUE, data |-> NoData]
\* util.Exists
Exists(content) == content.kind # "none"

(* ---------------- configuration ---------------- *)

NilConfig ==
    [isNil |-> TRUE, DomainList |-> <<>>, Zms |-> "", Zts |-> "", PolicyFileDir |-> "",
     TmpPolicyFileDir |-> "", MetricsDir |-> "", StartUpDelay |-> 0]
NewConfig(domainList, startUpDelay) ==
    [isNil |-> FALSE, DomainList |-> domainList, Zms |-> "zms", Zts |-> "zts",
     PolicyFileDir |-> "pol", TmpPolicyFileDir |-> "tmp", MetricsDir |-> "metrics",
     StartUpDelay |-> startUpDelay]

\* the keys configured statically: key id "0" of either service
StaticKeyIds == {"0"}
\* config.GetZtsPublicKey and config.GetZmsPublicKey
GetZtsPublicKey(config, keyId) == IF keyId \in StaticKeyIds THEN <<"zts", keyId>> ELSE NoKey
GetZmsPublicKey(config, keyId) == IF keyId \in StaticKeyIds THEN <<"zms", keyId>> ELSE NoKey

\* the domain lists tried: those that start with "a", the two names being alike
DomainSeqs == {s \in UNION {[1..n -> Domains] : n \in 1..MaxDomains} : s[1] = "a"}
\* the configuration that exercises the variants below
BaseConfig == NewConfig(Join(<<"a">>), 0)
Configs ==
    {NewConfig(Join(s), 0) : s \in DomainSeqs}
    \cup {NilConfig,
          [BaseConfig EXCEPT !.StartUpDelay = 1],
          [BaseConfig EXCEPT !.DomainList = <<>>],
          [BaseConfig EXCEPT !.Zms = ""],
          [BaseConfig EXCEPT !.Zts = ""],
          [BaseConfig EXCEPT !.TmpPolicyFileDir = ""],
          [BaseConfig EXCEPT !.MetricsDir = ""]}

(* ---------------- key service ---------------- *)

\* what the two zmsClient.GetPublicKeyEntry calls of one validation answer
LookupOutcomes == {"ok", "err", "undecodable"}
Lookups == [zts : LookupOutcomes, zms : LookupOutcomes]

YBase64Encode(key) == <<"ybase64">> \o key
\* new(zmssvctoken.YBase64).DecodeString
YBase64Decode(str) ==
    IF Len(str) > 0 /\ str[1] = "ybase64" THEN [err |-> FALSE, val |-> Tail(str)]
    ELSE [err |-> TRUE, val |-> NoKey]
\* zmsClient.GetPublicKeyEntry("sys.auth", service, keyId)
GetPublicKeyEntry(outcome, service, keyId) ==
    IF outcome = "err" THEN [err |-> TRUE, Key |-> <<>>]
    ELSE IF outcome = "undecodable" THEN [err |-> FALSE, Key |-> <<"%">>]
    ELSE [err |-> FALSE, Key |-> YBase64Encode(<<service, keyId>>)]

(* ---------------- validation ---------------- *)

\* expired: the clock is past the timestamp
expired(expires, now) == now > expires

\* verify looking at the signer alone, not at what was signed
verify_signerOnly(input, signature, publicKey) ==
    IF publicKey = NoKey THEN "badKey"
    ELSE IF signature.by = publicKey THEN NoErr
    ELSE "mismatch"
\* verify: the signature was made over this input with the key's private half
verify(input, signature, publicKey) ==
    IF publicKey = NoKey THEN "badKey"
    ELSE IF signature.by = publicKey /\ signature.over = input THEN NoErr
    ELSE "mismatch"

\* the inner (zms) half of ValidateSignedPolicies, lines 172-195
ValidateZms(config, lookups, data) ==
    LET zmsSignature == data.signedPolicyData.zmsSignature
        zmsKeyId == data.signedPolicyData.zmsKeyId
        static == GetZmsPublicKey(config, zmsKeyId)
        key == GetPublicKeyEntry(lookups.zms, "zms", zmsKeyId)
        decodedKey == YBase64Decode(key.Key)
        zmsPublicKey == IF static # NoKey THEN static ELSE decodedKey.val
        input == CanonicalPolicyData(data.signedPolicyData.policyData)
    IN  IF static = NoKey /\ key.err THEN "zmsKeyLookup"
        ELSE IF static = NoKey /\ decodedKey.err THEN "zmsKeyDecode"
        ELSE IF verify(input, zmsSignature, zmsPublicKey) # NoErr THEN "zmsVerify"
        ELSE NoErr

\* the steps of ValidateSignedPolicies in the order of the source, each with
\* the error that makes the function return at it
ValidateStages(config, lookups, data, now) ==
    LET signedPolicyData == data.signedPolicyData
        ztsSignature == data.signature
        ztsKeyId == data.keyId
        static == GetZtsPublicKey(config, ztsKeyId)
        key == GetPublicKeyEntry(lookups.zts, "zts", ztsKeyId)
        decodedKey == YBase64Decode(key.Key)
        ztsPublicKey == IF static # NoKey THEN static ELSE decodedKey.val
        input == CanonicalSignedPolicyData(signedPolicyData)
        zms == ValidateZms(config, lookups, data)
    IN  <<[op |-> "expired",
           err |-> IF expired(signedPolicyData.expires, now) THEN "expired" ELSE NoErr],
          [op |-> "ztsKey",
           err |-> IF static = NoKey /\ key.err THEN "ztsKeyLookup"
                   ELSE IF static = NoKey /\ decodedKey.err THEN "ztsKeyDecode"
                   ELSE NoErr],
          [op |-> "ztsVerify",
           err |-> IF verify(input, ztsSignature, ztsPublicKey) # NoErr THEN "ztsVerify"
                   ELSE NoErr],
          [op |-> "zmsKey",
           err |-> IF zms \in {"zmsKeyLookup", "zmsKeyDecode"} THEN zms ELSE NoErr],
          [op |-> "zmsVerify", err |-> IF zms = "zmsVerify" THEN zms ELSE NoErr]>>

\* the steps up to the first that has an error, all of them if none has
RECURSIVE UntilError(_, _)
UntilError(stages, n) ==
    IF n = Len(stages) \/ stages[n].err # NoErr THEN SubSeq(stages, 1, n)
    ELSE UntilError(stages, n + 1)

\* ValidateSignedPolicies checking the expiry after the signatures
ValidateCalls_expiryLast(config, lookups, data, now) ==
    LET st == ValidateStages(config, lookups, data, now)
    IN  UntilError(<<st[2], st[3], st[4], st[5], st[1]>>, 1)
\* ValidateSignedPolicies, lines 143-196: the steps it takes; every failing
\* step returns, so that the steps after it are not taken
ValidateCalls(config, lookups, data, now) ==
    UntilError(ValidateStages(config, lookups, data, now), 1)

\* ValidateSignedPolicies with the inner stage left out
ValidateSignedPolicies_outerOnly(config, lookups, data, now) ==
    LET signedPolicyData == data.signedPolicyData
        static == GetZtsPublicKey(config, data.keyId)
        key == GetPublicKeyEntry(lookups.zts, "zts", data.keyId)
        decodedKey == YBase64Decode(key.Key)
        ztsPublicKey == IF static # NoKey THEN static ELSE decodedKey.val
    IN  IF expired(signedPolicyData.expires, now) THEN "expired"
        ELSE IF static = NoKey /\ key.err THEN "ztsKeyLookup"
        ELSE IF static = NoKey /\ decodedKey.err THEN "ztsKeyDecode"
        ELSE IF verify(CanonicalSignedPolicyData(signedPolicyData), data.signature, ztsPublicKey) # NoErr
             THEN "ztsVerify"
        ELSE NoErr
\* ValidateSignedPolicies: the error it returns, NoErr for none
ValidateSignedPolicies(config, lookups, data, now) ==
    LET calls == ValidateCalls(config, lookups, data, now)
    IN  calls[Len(calls)].err

\* the etag made of the modified time alone
QuotedEtag_bare(modified) == <<modified>>
\* "\"" + modified.String() + "\""
QuotedEtag(modified) == <<"\"", modified, "\"">>

\* GetEtagForExistingPolicy: the etag and the error it returns for the
\* content found at the policy file path; the validation reads the clock as
\* now, the check of the grace period after it as later
GetEtagForExistingPolicy(config, lookups, content, openOk, now, later) ==
    LET decoded == Decode(content)
        data == decoded.data
        verr == ValidateSignedPolicies(config, lookups, data, now)
        expires == data.signedPolicyData.expires
        modified == data.signedPolicyData.modified
    IN  IF ~Exists(content) THEN [etag |-> NoEtag, err |-> NoErr]
        ELSE IF ~openOk THEN [etag |-> NoEtag, err |-> "open"]
        ELSE IF decoded.err THEN [etag |-> NoEtag, err |-> "decode"]
        ELSE IF verr # NoErr THEN [etag |-> NoEtag, err |-> verr]
        ELSE IF expired(expires + config.StartUpDelay, later)
             THEN [etag |-> NoEtag, err |-> NoErr]
        ELSE IF modified # 0 THEN [etag |-> QuotedEtag(modified), err |-> NoErr]
        ELSE [etag |-> NoEtag, err |-> NoErr]

(* ---------------- the updater ---------------- *)

VARIABLES
    config,         \* the configuration PolicyUpdater is called with
    fs,             \* path -> content of the policy and temp files
    tmpDirExists,   \* the temp directory exists
    now,            \* the clock
    pc,             \* where PolicyUpdater stands
    idx,            \* position of the range loop in domains
    etag,           \* GetPolicies: etag
    data,           \* GetPolicies: data
    err,            \* PolicyUpdater: the err GetPolicies returned
    success,        \* PolicyUpdater: success
    failedDomains,  \* PolicyUpdater: failedDomains
    result,         \* what PolicyUpdater returned
    metrics,        \* how the metrics step of this run went
    cur,            \* history: the pipeline pass in progress
    log,            \* history: the finished pipeline passes of this run
    readerSaw,      \* what the concurrent reader last read from the policy file
    run,            \* history: which run of the process this is
    start,          \* history: the files as they were when this run began
    metricFiles,    \* file name -> content of the files of the metrics directory
    mpc,            \* where PostAllDomainMetric stands
    m,              \* PostAllDomainMetric: m, domain -> metric type -> count
    pending,        \* PostAllDomainMetric: the keys of m the range loop has yet to visit
    key,            \* PostAllDomainMetric: key
    posted,         \* history: domain -> the payload the service accepted for it
    postResult,     \* what PostAllDomainMetric returned
    aggregated,     \* history: the files aggregateAllDomainMetrics read
    removed         \* history: the files deleteDomainMetricFiles removed

\* the variables of the policy pipeline, of the metrics step, and the run history
pvars == <<config, fs, tmpDirExists, now, pc, idx, etag, data, err, success, failedDomains,
           result, metrics, cur, log, readerSaw>>
mvars == <<metricFiles, mpc, m, pending, key, posted, postResult, aggregated, removed>>
xvars == <<run, start, mvars>>
vars == <<pvars, xvars>>

Paths == {policyFile("pol", d) : d \in Domains} \cup {tempPolicyFile("tmp", d) : d \in Domains}

NoResult == [err |-> "running", domains |-> <<>>]
NotRead == [kind |-> "unread", bundle |-> NoData]
Idle == [domain |-> ""]

domains == Split(config.DomainList)
domain == domains[idx]

FetchResponses ==
    {[data |-> NoData, err |-> TRUE], [data |-> NoData, err |-> FALSE]}
    \cup {[data |-> b, err |-> FALSE] : b \in Bundles}

\* the history record of a pipeline pass that starts on domain d with files f:
\* the files and the cached content it found, what the probe and the fetch
\* gave, when the bundle was validated and by which steps, how the rename
\* went, whether an operation on the files failed, and the step that failed
NewCur(d, f) ==
    [domain |-> d, fs0 |-> f, cached |-> NoFile, openOk |-> TRUE, probedAt |-> -1,
     etag |-> NoEtag,
     fetch |-> "none", validatedAt |-> -1, calls |-> <<>>, writes |-> FALSE,
     rename |-> "none", ioFailed |-> FALSE,
     failedAt |-> "none"]

\* the files a pipeline pass may touch start as the program or a crash of it
\* can have left them, or as anybody put them there
InitPolicyContents ==
    {NoFile, Garbage, Marshal(GoodBundle(0, 1, "1")), Marshal(GoodBundle(2, 1, "0")),
     Marshal(GoodBundle(2, 0, "0")), Marshal(BadInnerBundle)}
InitTempContents == {NoFile, Partial(GoodBundle(2, 1, "0")), Marshal(GoodBundle(2, 0, "0"))}
\* the domains of the configured list
Listed(c) == {c.DomainList[i] : i \in 1..Len(c.DomainList)} \ {","}

\* the policy pipeline before PolicyUpdater is called
InitUpdater ==
    /\ config \in Configs
    /\ \E pol \in [Domains -> InitPolicyContents], tmp \in InitTempContents :
          /\ fs = [p \in Paths |-> IF p[4] = ".pol" THEN pol[p[3]] ELSE tmp]
          /\ \A d \in Domains \ Listed(config) :
                pol[d] = Marshal(GoodBundle(2, 1, "0"))
          /\ pol["b"] \in {NoFile, Garbage, Marshal(GoodBundle(2, 1, "0"))}
    /\ tmpDirExists \in BOOLEAN
    /\ Exists(fs[tempPolicyFile("tmp", "a")]) => tmpDirExists
    /\ now = 0
    /\ pc = "start"
    /\ idx = 0
    /\ etag = NoEtag
    /\ data = NoData
    /\ err = NoErr
    /\ success = TRUE
    /\ failedDomains = <<>>
    /\ result = NoResult
    /\ metrics = "none"
    /\ cur = Idle
    /\ log = <<>>
    /\ readerSaw = NotRead

\* the run history when the starting files are not kept
NotTracked == <<>>
\* the metrics step before PostAllDomainMetric is called on an empty directory
InitMetricsIdle ==
    /\ metricFiles = <<>>
    /\ mpc = "idle"
    /\ m = <<>>
    /\ pending = {}
    /\ key = <<>>
    /\ posted = <<>>
    /\ postResult = "none"
    /\ aggregated = <<>>
    /\ removed = <<>>

Init ==
    /\ InitUpdater
    /\ run = 1
    /\ start = NotTracked
    /\ InitMetricsIdle

\* the configuration checks without the check of the Zts url
ConfigError_noZts(c) ==
    IF c.isNil THEN "Nil configuration"
    ELSE IF c.DomainList = <<>> THEN "No domain list to process from configuration"
    ELSE IF c.Zms = "" THEN "Empty Zms url in configuration"
    ELSE NoErr
\* PolicyUpdater, lines 28-39: the configuration checks, in their order
ConfigError(c) ==
    IF c.isNil THEN "Nil configuration"
    ELSE IF c.DomainList = <<>> THEN "No domain list to process from configuration"
    ELSE IF c.Zms = "" THEN "Empty Zms url in configuration"
    ELSE IF c.Zts = "" THEN "Empty Zts url in configuration"
    ELSE NoErr

\* PolicyUpdater, lines 27-47: the configuration checks and the loop set-up
PolicyUpdaterStart ==
    /\ pc = "start"
    /\ IF ConfigError(config) # NoErr
       THEN /\ result' = [err |-> ConfigError(config), domains |-> <<>>]
            /\ pc' = "done"
            /\ UNCHANGED <<idx, cur>>
       ELSE /\ pc' = "etag"
            /\ idx' = 1
            /\ cur' = NewCur(domains[1], fs)
            /\ UNCHANGED result
    /\ success' = TRUE
    /\ failedDomains' = <<>>
    /\ UNCHANGED xvars
    /\ UNCHANGED <<config, fs, tmpDirExists, now, etag, data, err, metrics, log, readerSaw>>

\* GetPolicies returns e, having left the files as f
Return(c, e, f) ==
    /\ fs' = f
    /\ cur' = c
    /\ err' = e
    /\ pc' = "return"
    /\ UNCHANGED <<idx, etag, data, success, failedDomains, log>>

\* the range loop of PolicyUpdater stopping at the first failure
LoopNext_break(i, e) ==
    IF i + 1 <= Len(domains) /\ e = NoErr THEN "etag" ELSE "metrics"
\* PolicyUpdater, line 48: the range loop goes on to the next domain, or
\* leaves the loop after the last, whatever GetPolicies returned
LoopNext(i, e) ==
    IF i + 1 <= Len(domains) THEN "etag" ELSE "metrics"

\* PolicyUpdater, lines 50-59: the failure is recorded and the loop moves on
PolicyUpdaterRecord ==
    /\ pc = "return"
    /\ success' = IF err # NoErr THEN FALSE ELSE success
    /\ failedDomains' = IF err # NoErr THEN failedDomains \o <<"\"", domain, "\" ">>
                        ELSE failedDomains
    /\ log' = Append(log, [domain |-> cur.domain, failed |-> (cur.failedAt # "none"),
                            err |-> (err # NoErr)])
    /\ idx' = idx + 1
    /\ pc' = LoopNext(idx, err)
    /\ cur' = IF pc' = "etag" THEN NewCur(domains[idx + 1], fs) ELSE Idle
    /\ etag' = NoEtag
    /\ data' = NoData
    /\ err' = NoErr
    /\ readerSaw' = NotRead
    /\ UNCHANGED xvars
    /\ UNCHANGED <<config, fs, tmpDirExists, now, result, metrics>>

\* GetPolicies, lines 74-78: the etag of the cached policy file; the clock is
\* read by the validation and again by the check of the grace period
GetPoliciesEtag ==
    /\ pc = "etag"
    /\ \E openOk \in BOOLEAN, lookups \in Lookups, later \in {now, now + 1} :
          LET content == fs[policyFile(config.PolicyFileDir, domain)]
              r == GetEtagForExistingPolicy(config, lookups, content, openOk, now, later)
              c == [cur EXCEPT !.cached = content, !.etag = r.etag, !.probedAt = now,
                               !.openOk = (openOk \/ ~Exists(content))]
          IN  /\ later <= MaxTime
              /\ now' = later
              /\ IF r.err # NoErr
                 THEN Return([c EXCEPT !.failedAt = "etag"], "Failed to get Etag", fs)
                 ELSE /\ etag' = r.etag
                      /\ cur' = c
                      /\ pc' = "fetch"
                      /\ UNCHANGED <<fs, idx, data, err, success, failedDomains, log>>
    /\ UNCHANGED xvars
    /\ UNCHANGED <<config, tmpDirExists, result, metrics, readerSaw>>

\* GetPolicies answering a missing bundle with an error whatever the etag
NoDataResult_error(tag) == "Empty policies data returned"
\* GetPolicies answering a missing bundle with success whatever the etag
NoDataResult_nil(tag) == NoErr
\* GetPolicies, lines 84-91: no bundle came; not an error if an etag was sent
NoDataResult(tag) ==
    IF tag # NoEtag THEN NoErr ELSE "Empty policies data returned"

\* GetPolicies, lines 79-91: the conditional fetch and the no-data cases
GetPoliciesFetch ==
    /\ pc = "fetch"
    /\ \E resp \in FetchResponses :
          IF resp.err
          THEN Return([cur EXCEPT !.fetch = "err", !.failedAt = "fetch"],
                      "Failed to get domain signed policy data", fs)
          ELSE IF resp.data = NoData
          THEN Return([cur EXCEPT !.fetch = "nil",
                                  !.failedAt = IF NoDataResult(etag) # NoErr
                                               THEN "empty" ELSE "none"],
                      NoDataResult(etag), fs)
          ELSE /\ data' = resp.data
               /\ cur' = [cur EXCEPT !.fetch = "data"]
               /\ pc' = "validate"
               /\ UNCHANGED <<fs, idx, etag, err, success, failedDomains, log>>
    /\ UNCHANGED xvars
    /\ UNCHANGED <<config, tmpDirExists, now, result, metrics, readerSaw>>

\* GetPolicies, lines 92-96: validation of the fetched bundle
GetPoliciesValidate ==
    /\ pc = "validate"
    /\ \E lookups \in Lookups :
          IF ValidateSignedPolicies(config, lookups, data, now) # NoErr
          THEN Return([cur EXCEPT !.failedAt = "validate", !.validatedAt = now,
                                  !.calls = ValidateCalls(config, lookups, data, now)],
                      "Failed to validate policy data", fs)
          ELSE /\ pc' = "write"
               /\ cur' = [cur EXCEPT !.validatedAt = now, !.writes = TRUE,
                                     !.calls = ValidateCalls(config, lookups, data, now)]
               /\ UNCHANGED <<fs, idx, etag, data, err, success, failedDomains, log>>
    /\ UNCHANGED xvars
    /\ UNCHANGED <<config, tmpDirExists, now, result, metrics, readerSaw>>

\* WritePolicies giving up when it finds a temp file left behind
StaleTempError_refuse(exists, removeOk) == exists
\* WritePolicies, lines 225-229: a temp file left behind is removed, and only
\* a failed removal is an error
StaleTempError(exists, removeOk) == exists /\ ~removeOk

\* WritePolicies, lines 218-229: the argument check and the removal of a
\* temp file left behind
WritePoliciesRemove ==
    /\ pc = "write"
    /\ IF config.TmpPolicyFileDir = "" \/ data = NoData
       THEN Return([cur EXCEPT !.failedAt = "write"], "Unable to write Policies", fs)
       ELSE LET tmp == tempPolicyFile(config.TmpPolicyFileDir, domain)
            IN  \E removeOk \in BOOLEAN :
                   IF StaleTempError(Exists(fs[tmp]), removeOk)
                   THEN Return([cur EXCEPT !.failedAt = "write", !.ioFailed = ~removeOk],
                               "Unable to write Policies", fs)
                   ELSE /\ removeOk
                        /\ fs' = [fs EXCEPT ![tmp] = NoFile]
                        /\ pc' = "writeFile"
                        /\ UNCHANGED <<idx, etag, data, err, success, failedDomains, cur, log>>
    /\ UNCHANGED xvars
    /\ UNCHANGED <<config, tmpDirExists, now, result, metrics, readerSaw>>

\* verifyTmpDirSetup: the error it returns and whether the directory exists after
verifyTmpDirSetup(exists, mkdirOk) ==
    IF exists THEN [err |-> FALSE, exists |-> TRUE]
    ELSE IF mkdirOk THEN [err |-> FALSE, exists |-> TRUE]
    ELSE [err |-> TRUE, exists |-> FALSE]

\* WritePolicies, lines 231-239: the temp directory, then ioutil.WriteFile
\* creates the temp file and starts writing
WritePoliciesCreate ==
    /\ pc = "writeFile"
    /\ \E mkdirOk \in BOOLEAN, createOk \in BOOLEAN :
          LET tmp == tempPolicyFile(config.TmpPolicyFileDir, domain)
              setup == verifyTmpDirSetup(tmpDirExists, mkdirOk)
          IN  /\ tmpDirExists => mkdirOk
              /\ tmpDirExists' = setup.exists
              /\ IF setup.err \/ ~createOk
                 THEN Return([cur EXCEPT !.failedAt = "write", !.ioFailed = TRUE],
                             "Unable to write Policies", fs)
                 ELSE /\ fs' = [fs EXCEPT ![tmp] = Partial(data)]
                      /\ pc' = "writeFileEnd"
                      /\ UNCHANGED <<idx, etag, data, err, success, failedDomains, cur, log>>
    /\ UNCHANGED xvars
    /\ UNCHANGED <<config, now, result, metrics, readerSaw>>

\* WritePolicies, lines 239-242: ioutil.WriteFile finishes or fails midway
WritePoliciesWrite ==
    /\ pc = "writeFileEnd"
    /\ \E writeOk \in BOOLEAN :
          LET tmp == tempPolicyFile(config.TmpPolicyFileDir, domain)
          IN  IF ~writeOk
              THEN Return([cur EXCEPT !.failedAt = "write", !.ioFailed = TRUE],
                          "Unable to write Policies", fs)
              ELSE /\ fs' = [fs EXCEPT ![tmp] = Marshal(data)]
                   /\ pc' = "rename"
                   /\ UNCHANGED <<idx, etag, data, err, success, failedDomains, cur, log>>
    /\ UNCHANGED xvars
    /\ UNCHANGED <<config, tmpDirExists, now, result, metrics, readerSaw>>

\* os.Rename(from, to): the files after it; a failed rename changes nothing
Rename(f, from, to, renameOk) ==
    IF ~renameOk \/ from = to THEN f
    ELSE [f EXCEPT ![to] = f[from], ![from] = NoFile]

\* WritePolicies, lines 243-247: the rename, whose error is not assigned to
\* err, so that the check after it reads the nil left by the write
WritePoliciesRename ==
    /\ pc = "rename"
    /\ \E renameOk \in BOOLEAN :
          LET tmp == tempPolicyFile(config.TmpPolicyFileDir, domain)
              pol == policyFile(config.PolicyFileDir, domain)
          IN  Return([cur EXCEPT !.rename = IF renameOk THEN "ok" ELSE "failed",
                                 !.ioFailed = ~renameOk,
                                 !.failedAt = IF renameOk THEN "none" ELSE "rename"],
                     NoErr, Rename(fs, tmp, pol, renameOk))
    /\ UNCHANGED xvars
    /\ UNCHANGED <<config, tmpDirExists, now, result, metrics, readerSaw>>

\* PolicyUpdater returning the error of the metrics step when the domains
\* gave none
PolicyUpdaterReturn_metrics(ok, failed, postOk) ==
    IF ~ok THEN [err |-> "Failed to get policies for domains", domains |-> failed]
    ELSE IF ~postOk THEN [err |-> "Posting of metrics failed", domains |-> <<>>]
    ELSE [err |-> NoErr, domains |-> <<>>]
\* PolicyUpdater, lines 62-70: the error of PostAllDomainMetric is logged in
\* its own scope; what is returned comes from success and failedDomains
PolicyUpdaterReturn(ok, failed, postOk) ==
    IF ~ok THEN [err |-> "Failed to get policies for domains", domains |-> failed]
    ELSE [err |-> NoErr, domains |-> <<>>]

\* PolicyUpdater, lines 60-70: the metrics step and the combined result
PolicyUpdaterFinish ==
    /\ pc = "metrics"
    /\ \E postOk \in BOOLEAN :
          /\ config.MetricsDir = "" => postOk
          /\ metrics' = IF config.MetricsDir = "" THEN "skipped"
                        ELSE IF postOk THEN "ok" ELSE "failed"
          /\ result' = PolicyUpdaterReturn(success, failedDomains, postOk)
    /\ pc' = "done"
    /\ UNCHANGED xvars
    /\ UNCHANGED <<config, fs, tmpDirExists, now, idx, etag, data, err, success,
                   failedDomains, cur, log, readerSaw>>

\* time passes while the fetched bundle travels
Tick ==
    /\ pc \in {"etag", "validate"}
    /\ now < MaxTime
    /\ now' = now + 1
    /\ UNCHANGED xvars
    /\ UNCHANGED <<config, fs, tmpDirExists, pc, idx, etag, data, err, success,
                   failedDomains, result, metrics, cur, log, readerSaw>>

\* another process reads the policy file WritePolicies is replacing
Reader ==
    /\ pc \in {"write", "writeFile", "writeFileEnd", "rename", "return"}
    /\ cur.writes
    /\ readerSaw' = fs[policyFile("pol", domain)]
    /\ readerSaw' # readerSaw
    /\ UNCHANGED xvars
    /\ UNCHANGED <<config, fs, tmpDirExists, now, pc, idx, etag, data, err, success,
                   failedDomains, result, metrics, cur, log>>

Next ==
    \/ PolicyUpdaterStart
    \/ GetPoliciesEtag
    \/ GetPoliciesFetch
    \/ GetPoliciesValidate
    \/ WritePoliciesRemove
    \/ WritePoliciesCreate
    \/ WritePoliciesWrite
    \/ WritePoliciesRename
    \/ PolicyUpdaterRecord
    \/ PolicyUpdaterFinish
    \/ Tick
    \/ Reader

Spec == Init /\ [][Next]_vars

\* the process halts after the temp file was written and before the rename
Crash ==
    /\ pc = "rename"
    /\ run = 1
    /\ pc' = "halted"
    /\ UNCHANGED <<config, fs, tmpDirExists, now, idx, etag, data, err, success,
                   failedDomains, result, metrics, cur, log, readerSaw>>
    /\ UNCHANGED xvars

\* PolicyUpdater is started again on the files the halted process left
Rerun ==
    /\ pc = "halted"
    /\ run' = run + 1
    /\ pc' = "start"
    /\ idx' = 0
    /\ etag' = NoEtag
    /\ data' = NoData
    /\ err' = NoErr
    /\ success' = TRUE
    /\ failedDomains' = <<>>
    /\ result' = NoResult
    /\ metrics' = "none"
    /\ cur' = Idle
    /\ log' = <<>>
    /\ readerSaw' = NotRead
    /\ UNCHANGED <<config, fs, tmpDirExists, now, start, mvars>>

NextCrash ==
    \/ Next
    \/ Crash
    \/ Rerun

\* the halt and the rerun are followed on the lists of a single domain
InitCrash ==
    /\ Init
    /\ config.isNil \/ Len(config.DomainList) <= 1

SpecCrash == InitCrash /\ [][NextCrash]_vars

\* a run that keeps, as history, the files it started with; it starts with
\* no temp file left behind and with policy files that are missing or hold a
\* bundle that is still valid
InitTracked ==
    /\ InitUpdater
    /\ \A p \in Paths : fs[p] \in {NoFile, Marshal(GoodBundle(2, 1, "0"))}
    /\ \A d \in Domains : fs[tempPolicyFile("tmp", d)] = NoFile
    /\ run = 1
    /\ start = fs
    /\ InitMetricsIdle

SpecTracked == InitTracked /\ [][Next]_vars

(* ---------------- the metrics step ---------------- *)

\* the names the files of the metrics directory can have
MetricNames ==
    {<<"a", "_", "1">>, <<"a", "_", "2">>, <<"b", "_", "1">>, <<"b", "_", "a", "_", "1">>}

RECURSIVE FirstPiece(_)
\* strings.Split(name, "_")[0]: the text before the first "_", the whole
\* name if it has none
FirstPiece(name) ==
    IF name = <<>> \/ Head(name) = "_" THEN <<>>
    ELSE <<Head(name)>> \o FirstPiece(Tail(name))

\* what a name of the metrics directory holds: nothing, text that is not
\* JSON, or the JSON of a map from metric type to count
NoMetricFile == [kind |-> "none"]
BadMetricFile == [kind |-> "garbage"]
MetricFile(counts) == [kind |-> "json", counts |-> counts]
InitMetricContents ==
    {NoMetricFile, BadMetricFile, MetricFile("calls" :> 3),
     MetricFile(("calls" :> 4) @@ ("denies" :> 1))}
ProducedContents == {MetricFile("denies" :> 2)}

\* the orders in which the elements of a set can come
Orders(S) ==
    {o \in [1..Cardinality(S) -> S] : \A i, j \in 1..Cardinality(S) : o[i] = o[j] => i = j}

\* aggregateAllDomainMetrics, lines 307-317: the counts of a file are added
\* to those its domain already has, type by type
AddCounts(domainMap, fileMap) ==
    [k \in DOMAIN domainMap \cup DOMAIN fileMap |->
        IF k \in DOMAIN fileMap
        THEN IF k \in DOMAIN domainMap THEN domainMap[k] + fileMap[k] ELSE fileMap[k]
        ELSE domainMap[k]]

RECURSIVE AggregateFrom(_, _, _)
\* aggregateAllDomainMetrics, lines 296-322: the loop over the listed files
AggregateFrom(files, listing, acc) ==
    IF listing = <<>> THEN acc
    ELSE LET name == Head(listing)
             dom == FirstPiece(name)
             fileMap == files[name].counts
         IN  AggregateFrom(files, Tail(listing),
                           IF dom \in DOMAIN acc
                           THEN [acc EXCEPT ![dom] = AddCounts(acc[dom], fileMap)]
                           ELSE acc @@ (dom :> fileMap))

\* aggregateAllDomainMetrics: the map and the error it returns for the files
\* listed in this order
aggregateAllDomainMetrics(files, listing, readOk) ==
    IF ~readOk THEN [m |-> <<>>, err |-> "readErr"]
    ELSE IF listing = <<>> THEN [m |-> <<>>, err |-> NoErr]
    ELSE IF \E i \in 1..Len(listing) : files[listing[i]].kind # "json"
    THEN [m |-> <<>>, err |-> "unmarshalErr"]
    ELSE [m |-> AggregateFrom(files, listing, <<>>), err |-> NoErr]

\* the metric types in the byte order of their names
Lexical == <<"calls", "denies">>
Rank(s) == CHOOSE i \in 1..Len(Lexical) : Lexical[i] = s
RECURSIVE Insert(_, _)
Insert(sorted, s) ==
    IF sorted = <<>> THEN <<s>>
    ELSE IF Rank(s) <= Rank(Head(sorted)) THEN <<s>> \o sorted
    ELSE <<Head(sorted)>> \o Insert(Tail(sorted), s)
RECURSIVE SortedFrom(_)
SortedFrom(keys) ==
    IF keys = <<>> THEN <<>> ELSE Insert(SortedFrom(Tail(keys)), Head(keys))
\* the keys left in the order the map gave them
SortStrings_asFound(keys) == keys
\* sort.Strings(valuekeys)
SortStrings(keys) == SortedFrom(keys)

\* buildDomainMetrics: the payload for the domain, its entries in the order
\* of the sorted keys; valuekeys is the order in which the map gave its keys
buildDomainMetrics(domainName, value, valuekeys) ==
    LET sorted == SortStrings(valuekeys)
    IN  [domainName |-> domainName,
         metricList |-> [i \in 1..Len(sorted) |->
                            [metricType |-> sorted[i], metricVal |-> value[sorted[i]]]]]

\* the files of the directory
Listing(files) == {n \in MetricNames : files[n] # NoMetricFile}

\* PostAllDomainMetric, lines 262-266, and aggregateAllDomainMetrics
MetricsAggregate ==
    /\ mpc = "aggregate"
    /\ \E readOk \in BOOLEAN, listing \in Orders(Listing(metricFiles)) :
          LET r == aggregateAllDomainMetrics(metricFiles, listing, readOk)
          IN  IF r.err # NoErr \/ listing = <<>>
              THEN /\ postResult' = r.err
                   /\ mpc' = "done"
                   /\ UNCHANGED <<m, pending, aggregated>>
              ELSE /\ m' = r.m
                   /\ pending' = DOMAIN r.m
                   /\ aggregated' = [n \in Listing(metricFiles) |-> metricFiles[n]]
                   /\ mpc' = "range"
                   /\ UNCHANGED postResult
    /\ UNCHANGED <<metricFiles, key, posted, removed>>
    /\ UNCHANGED <<pvars, run, start>>

\* PostAllDomainMetric, line 267: the range over m takes a key not yet
\* visited, in no fixed order, or ends
MetricsRange ==
    /\ mpc = "range"
    /\ IF pending = {}
       THEN /\ postResult' = NoErr
            /\ mpc' = "done"
            /\ UNCHANGED <<key, pending>>
       ELSE /\ \E k \in pending :
                  /\ key' = k
                  /\ pending' = pending \ {k}
            /\ mpc' = "post"
            /\ UNCHANGED postResult
    /\ UNCHANGED <<metricFiles, m, posted, aggregated, removed>>
    /\ UNCHANGED <<pvars, run, start>>

\* PostAllDomainMetric deleting the files of the domain whatever the report gave
AfterPost_always(postOk) == "delete"
\* PostAllDomainMetric, lines 274-279: a failed report returns; the files are
\* deleted after a report that succeeded
AfterPost(postOk) == IF postOk THEN "delete" ELSE "done"

\* PostAllDomainMetric, lines 269-278: the payload is built and reported
MetricsPost ==
    /\ mpc = "post"
    /\ \E buildOk \in BOOLEAN, postOk \in BOOLEAN, valuekeys \in Orders(DOMAIN m[key]) :
          LET payload == buildDomainMetrics(key, m[key], valuekeys)
          IN  IF ~buildOk
              THEN /\ postOk
                   /\ postResult' = "buildErr"
                   /\ mpc' = "done"
                   /\ UNCHANGED posted
              ELSE /\ posted' = IF postOk THEN posted @@ (key :> payload) ELSE posted
                   /\ postResult' = IF postOk THEN postResult ELSE "postErr"
                   /\ mpc' = AfterPost(postOk)
    /\ UNCHANGED <<metricFiles, m, pending, key, aggregated, removed>>
    /\ UNCHANGED <<pvars, run, start>>

\* deleteDomainMetricFiles: the directory is listed again and every file
\* whose first piece is the domain is removed; a removal that fails is logged
MetricsDelete ==
    /\ mpc = "delete"
    /\ \E readOk \in BOOLEAN :
          LET matching == {n \in Listing(metricFiles) : FirstPiece(n) = key}
          IN  \E kept \in SUBSET matching :
                 LET gone == IF readOk THEN matching \ kept ELSE {}
                 IN  /\ ~readOk => kept = matching
                     /\ metricFiles' = [n \in MetricNames |->
                                           IF n \in gone THEN NoMetricFile
                                           ELSE metricFiles[n]]
                     /\ removed' = removed @@ [n \in gone |-> metricFiles[n]]
    /\ mpc' = "range"
    /\ UNCHANGED <<m, pending, key, posted, postResult, aggregated>>
    /\ UNCHANGED <<pvars, run, start>>

\* a producer of metrics writes a new file while PostAllDomainMetric runs
Producer ==
    /\ mpc \in {"range", "post", "delete"}
    /\ \E n \in MetricNames, c \in ProducedContents :
          /\ metricFiles[n] = NoMetricFile
          /\ n \notin DOMAIN aggregated \cup DOMAIN removed
          /\ metricFiles' = [metricFiles EXCEPT ![n] = c]
    /\ UNCHANGED <<mpc, m, pending, key, posted, postResult, aggregated, removed>>
    /\ UNCHANGED <<pvars, run, start>>

\* PolicyUpdater at line 62, after the pass of its only domain failed at
\* the fetch, with any files in the metrics directory
InitMetrics ==
    /\ config = BaseConfig
    /\ fs = [p \in Paths |-> NoFile]
    /\ tmpDirExists = FALSE
    /\ now = 0
    /\ pc = "metrics"
    /\ idx = 2
    /\ etag = NoEtag
    /\ data = NoData
    /\ err = NoErr
    /\ success = FALSE
    /\ failedDomains = <<"\"", "a", "\" ">>
    /\ result = NoResult
    /\ metrics = "none"
    /\ cur = Idle
    /\ log = <<[domain |-> "a", failed |-> TRUE, err |-> TRUE]>>
    /\ readerSaw = NotRead
    /\ run = 1
    /\ start = NotTracked
    /\ metricFiles \in [MetricNames -> InitMetricContents]
    /\ mpc = "aggregate"
    /\ m = <<>>
    /\ pending = {}
    /\ key = <<>>
    /\ posted = <<>>
    /\ postResult = "none"
    /\ aggregated = <<>>
    /\ removed = <<>>

NextMetrics ==
    \/ MetricsAggregate
    \/ MetricsRange
    \/ MetricsPost
    \/ MetricsDelete
    \/ Producer

SpecMetrics == InitMetrics /\ [][NextMetrics]_vars

(* ---------------- properties ---------------- *)

ConfigOk == ~config.isNil /\ config.DomainList # <<>> /\ config.Zms # "" /\ config.Zts # ""
PolPath(d) == policyFile("pol", d)
TmpPath(d) == tempPolicyFile("tmp", d)
WriteSteps == {"write", "writeFile", "writeFileEnd", "rename"}

\* both signatures of the bundle are what the two authorities make for it
ChainOk(b) ==
    /\ b.signature = Sign(<<"zts", b.keyId>>, CanonicalSignedPolicyData(b.signedPolicyData))
    /\ b.signedPolicyData.zmsSignature =
          Sign(<<"zms", b.signedPolicyData.zmsKeyId>>,
               CanonicalPolicyData(b.signedPolicyData.policyData))
\* the bundle is trusted at time t
Trusted(b, t) == ChainOk(b) /\ t >= 0 /\ ~(t > b.signedPolicyData.expires)

\* the domains named by the combined error text
NamedDomains(text) == {text[i] : i \in {j \in 1..Len(text) : j % 3 = 2}}

\* C1: WritePolicies is entered only with a bundle that was unexpired and
\* carried both genuine signatures when this pass validated it, and a policy
\* file changes only by the rename of this pass, to that bundle's text.
C1_OnlyValidatedWritten ==
    [][/\ pc' \in WriteSteps => data' # NoData /\ Trusted(data', cur'.validatedAt)
       /\ \A d \in Domains :
             fs'[PolPath(d)] # fs[PolPath(d)] =>
                /\ pc = "rename"
                /\ d = domain
                /\ fs'[PolPath(d)] = Marshal(data)
                /\ Trusted(data, cur.validatedAt)]_vars
\* a pass has replaced a policy file by the bundle it fetched
C1_Witness ==
    /\ pc = "return"
    /\ cur.rename = "ok"
    /\ fs[PolPath(domain)] = Marshal(data)
    /\ fs[PolPath(domain)] # cur.fs0[PolPath(domain)]

\* C2: whatever the earlier passes returned, the passes made so far are those
\* of the first domains of the list, one each and in list order, and when
\* PolicyUpdater is through the loop every domain of the list has had its pass.
C2_EveryDomainOnceInOrder ==
    ConfigOk /\ pc # "start" =>
        /\ Len(log) <= Len(domains)
        /\ \A i \in 1..Len(log) : log[i].domain = domains[i]
        /\ pc \in {"metrics", "done"} => Len(log) = Len(domains)
        /\ pc \notin {"metrics", "done"} => idx = Len(log) + 1 /\ cur.domain = domains[idx]
\* the run is over, the first domain failed and the second had its pass and succeeded
C2_Witness ==
    /\ pc = "done"
    /\ Len(log) = 2
    /\ log[1].err
    /\ ~log[2].err

\* C3 (as claimed): with a valid configuration PolicyUpdater returns an error
\* exactly when a pass failed, and the error names exactly the domains whose
\* pass failed.
C3_ErrorNamesExactlyFailed ==
    ConfigOk /\ pc = "done" =>
        /\ (result.err # NoErr) <=> (\E i \in 1..Len(log) : log[i].failed)
        /\ NamedDomains(result.domains) = {log[i].domain : i \in {j \in 1..Len(log) : log[j].failed}}

C5_CorruptCacheSelfHeals ==
    pc = "return" /\ Exists(cur.cached) /\ (~cur.openOk \/ Decode(cur.cached).err) =>
        cur.failedAt # "etag" /\ cur.fetch # "none"

\* C6 (as claimed): a cached bundle that decodes and whose signatures do not
\* verify never makes the pass fail at the etag probe; the fetch is made.
C6_UntrustedCacheDiscarded ==
    pc = "return" /\ cur.openOk /\ ~Decode(cur.cached).err /\ ~ChainOk(cur.cached.bundle) =>
        cur.failedAt # "etag" /\ cur.fetch # "none"

\* C7 (as claimed): a cached bundle with genuine signatures that is expired,
\* grace period included, when the probe reads the clock never makes the
\* pass fail at the etag probe; the fetch is made.
C7_ExpiredCacheRefreshed ==
    /\ pc = "return"
    /\ cur.openOk
    /\ ~Decode(cur.cached).err
    /\ ChainOk(cur.cached.bundle)
    /\ cur.probedAt > cur.cached.bundle.signedPolicyData.expires + config.StartUpDelay
    => cur.failedAt # "etag" /\ cur.fetch # "none"

\* C8 (as claimed): when the rename fails, WritePolicies returns an error and
\* the temp file is still there.
C8_RenameFailureReported ==
    pc = "return" /\ cur.rename = "failed" =>
        err # NoErr /\ Exists(fs[TmpPath(domain)])

\* C9: a pass whose fetch brought no bundle and no error after a non-empty
\* etag was sent returns no error and leaves every policy and temp file as
\* the pass found it.
C9_NotModifiedIsNoOp ==
    pc = "return" /\ cur.fetch = "nil" /\ cur.etag # NoEtag =>
        err = NoErr /\ fs = cur.fs0
\* the fetch answered "no bundle" to a non-empty etag
C9_Witness ==
    /\ pc = "return"
    /\ cur.fetch = "nil"
    /\ cur.etag = QuotedEtag(1)
    /\ Exists(cur.cached)

\* C10: a pass whose fetch brought no bundle after an empty etag was sent
\* returns an error and leaves every file as the pass found it, and
\* PolicyUpdater then counts the run as failed and adds the domain to the
\* failed domains.
C10_NoDataWithoutEtagFails ==
    [][/\ pc' = "return" /\ cur'.fetch = "nil" /\ cur'.etag = NoEtag =>
             err' # NoErr /\ fs' = cur'.fs0
       /\ pc = "return" /\ cur.fetch = "nil" /\ cur.etag = NoEtag =>
             /\ ~success'
             /\ failedDomains' = failedDomains \o <<"\"", cur.domain, "\" ">>
             /\ fs' = cur.fs0]_vars
\* the fetch answered "no bundle" to an empty etag, the cached bundle having
\* no modified time
C10_Witness ==
    /\ pc = "return"
    /\ cur.fetch = "nil"
    /\ cur.etag = NoEtag
    /\ err = "Empty policies data returned"

\* the failure text of the passes that returned an error, in the order of the passes
RECURSIVE FailedText(_)
FailedText(l) ==
    IF l = <<>> THEN <<>>
    ELSE FailedText(SubSeq(l, 1, Len(l) - 1))
         \o (IF l[Len(l)].err THEN <<"\"", l[Len(l)].domain, "\" ">> ELSE <<>>)

\* C17: what PolicyUpdater returns is fixed by what the passes returned: the
\* combined error with the domains whose pass returned an error, or no error
\* when none did, whether the metrics step succeeded, failed or was skipped.
C17_MetricsNeverChangeResult ==
    ConfigOk /\ pc = "done" =>
        /\ metrics \in {"ok", "failed", "skipped"}
        /\ result = IF \E i \in 1..Len(log) : log[i].err
                    THEN [err |-> "Failed to get policies for domains",
                          domains |-> FailedText(log)]
                    ELSE [err |-> NoErr, domains |-> <<>>]
\* the metrics step failed after every pass had succeeded, and PolicyUpdater
\* returned no error
C17_Witness ==
    /\ pc = "done"
    /\ metrics = "failed"
    /\ Len(log) = 2
    /\ result.err = NoErr

\* C19: with a nil configuration, an empty domain list or an empty Zms or Zts
\* url, PolicyUpdater returns the error of the first failing check at once:
\* no pass is started, no file changes, no clock is read and the metrics step
\* is not run.
C19_ConfigErrorStopsAtOnce ==
    [][~ConfigOk =>
          /\ pc = "start" /\ pc' = "done"
          /\ result'.err = (IF config.isNil THEN "Nil configuration"
                            ELSE IF config.DomainList = <<>>
                            THEN "No domain list to process from configuration"
                            ELSE IF config.Zms = "" THEN "Empty Zms url in configuration"
                            ELSE "Empty Zts url in configuration")
          /\ fs' = fs /\ tmpDirExists' = tmpDirExists /\ now' = now
          /\ cur' = Idle /\ log' = <<>> /\ idx' = 0
          /\ etag' = NoEtag /\ data' = NoData
          /\ metrics' = "none" /\ mpc' = "idle"]_vars
\* PolicyUpdater has returned on a configuration whose metrics directory is
\* set and whose Zts url is empty
C19_Witness ==
    /\ pc = "done"
    /\ ~config.isNil
    /\ config.Zts = ""
    /\ config.MetricsDir # ""
    /\ result.err = "Empty Zts url in configuration"

\* the probe of this step found a cached bundle, validated it and found it
\* within the grace period when it read the clock again
ProbeFoundValid ==
    /\ pc = "etag" /\ pc' = "fetch"
    /\ Exists(fs[PolPath(domain)])
    /\ ~Decode(fs[PolPath(domain)]).err
    /\ ~expired(Decode(fs[PolPath(domain)]).data.signedPolicyData.expires
                + config.StartUpDelay, now')

\* C18 (as claimed): when the cached bundle validates and is unexpired, the
\* probe returns a non-empty etag, the modified time of the bundle between
\* double quotes.
C18_ValidCacheGivesQuotedEtag ==
    [][ProbeFoundValid =>
          /\ etag' # NoEtag
          /\ etag' = <<"\"", Decode(fs[PolPath(domain)]).data.signedPolicyData.modified,
                       "\"">>]_vars

\* C18 (amended): when the cached bundle validates and is unexpired, the probe
\* returns the modified time of the bundle between double quotes if that time
\* is not the zero time, and the empty etag if it is.
C18_ValidCacheGivesEtagUnlessZero ==
    [][ProbeFoundValid =>
          LET modified == Decode(fs[PolPath(domain)]).data.signedPolicyData.modified
          IN  /\ modified # 0 => etag' = <<"\"", modified, "\"">> /\ etag' # NoEtag
              /\ modified = 0 => etag' = NoEtag]_vars
\* the probe has returned the quoted modified time of a valid cached bundle
C18_Witness ==
    /\ pc = "fetch"
    /\ cur.cached = Marshal(GoodBundle(2, 1, "0"))
    /\ cur.probedAt = 0
    /\ etag = <<"\"", 1, "\"">>

\* the order of the steps of a validation
StageOrder == <<"expired", "ztsKey", "ztsVerify", "zmsKey", "zmsVerify">>

\* C15: the validation of a fetched bundle takes its steps in the order
\* expiry, outer key, outer signature, inner key, inner signature and stops
\* at the first that fails: an expired bundle is rejected for its expiry
\* whatever its signatures, with no key resolved and no signature verified,
\* and a bundle whose outer signature is not genuine is rejected at the outer
\* stage, with no inner key resolved and no inner signature verified.
C15_ValidationOrderFailFast ==
    cur # Idle /\ cur.calls # <<>> =>
        LET calls == cur.calls
            n == Len(calls)
            s == data.signedPolicyData
            outerOk == data.signature =
                          Sign(<<"zts", data.keyId>>, CanonicalSignedPolicyData(s))
        IN  /\ n <= Len(StageOrder)
            /\ \A i \in 1..n : calls[i].op = StageOrder[i]
            /\ \A i \in 1..(n - 1) : calls[i].err = NoErr
            /\ n < Len(StageOrder) => calls[n].err # NoErr
            /\ (cur.failedAt = "validate") <=> (calls[n].err # NoErr)
            /\ cur.validatedAt > s.expires => n = 1 /\ calls[1].err = "expired"
            /\ ~(cur.validatedAt > s.expires) /\ ~outerOk =>
                  n \in {2, 3} /\ calls[n].err # NoErr
\* a bundle with a forged outer signature was rejected for its expiry alone
C15_Witness ==
    /\ pc = "return"
    /\ cur.failedAt = "validate"
    /\ data = ForgedShortBundle
    /\ cur.calls = <<[op |-> "expired", err |-> "expired"]>>

\* the bundle b with its policy payload replaced and nothing else touched
WithPolicyData(b, policyData) == [b EXCEPT !.signedPolicyData.policyData = policyData]
\* the validated bundle is an authentic bundle whose payload alone was changed
\* after signing, and it had not expired when it was validated
PayloadMutated ==
    /\ cur # Idle /\ cur.calls # <<>>
    /\ ~(cur.validatedAt > data.signedPolicyData.expires)
    /\ \E g \in Bundles :
          /\ ChainOk(g)
          /\ g.signedPolicyData.policyData # data.signedPolicyData.policyData
          /\ data = WithPolicyData(g, data.signedPolicyData.policyData)
\* the inner verification of the validated bundle taken on its own, with the
\* genuine ZMS key
InnerAlone ==
    verify(CanonicalPolicyData(data.signedPolicyData.policyData),
           data.signedPolicyData.zmsSignature, <<"zms", data.signedPolicyData.zmsKeyId>>)

\* C16 (as claimed): when only the policy payload of an authentic bundle is
\* changed, the outer verification gives what it gave for the unchanged bundle,
\* success, and it is the inner verification that fails.
C16_PayloadMutationFailsInnerOnly ==
    PayloadMutated =>
        /\ Len(cur.calls) = 5
        /\ cur.calls[3].err = NoErr
        /\ cur.calls[5].err = "zmsVerify"

\* C16 (amended): when only the policy payload of an authentic bundle is
\* changed, the bundle is rejected by the outer verification, whose input holds
\* the payload, and the inner stage is not reached; the inner verification
\* taken on its own fails as well.
C16_PayloadMutationFailsOuter ==
    PayloadMutated =>
        /\ Len(cur.calls) = 3
        /\ cur.calls[3] = [op |-> "ztsVerify", err |-> "ztsVerify"]
        /\ cur.failedAt = "validate"
        /\ InnerAlone # NoErr
\* the bundle with the changed payload was fetched and rejected
C16_Witness ==
    /\ pc = "return"
    /\ PayloadMutated
    /\ data = TamperedBundle
    /\ err = "Failed to validate policy data"

\* C14 (as claimed): when a pass has failed, the policy file of its domain
\* holds what it held before the run.
C14_FailedDomainFileAsBeforeRun ==
    pc = "return" /\ cur.failedAt # "none" =>
        fs[PolPath(domain)] = start[PolPath(domain)]

\* C14 (amended): when a pass has failed, the policy file of its domain holds
\* what it held when the pass began, which is what it held before the run
\* unless an earlier pass of this run, for the same domain listed again,
\* replaced it; no policy file of another domain was touched by the pass.
C14_FailedPassLeavesFile ==
    pc = "return" /\ cur.failedAt # "none" =>
        /\ \A d \in Domains : fs[PolPath(d)] = cur.fs0[PolPath(d)]
        /\ (\A i \in 1..Len(log) : log[i].domain # domain) =>
              fs[PolPath(domain)] = start[PolPath(domain)]
\* a pass failed while writing the temp file of a domain that had a policy file
C14_Witness ==
    /\ pc = "return"
    /\ cur.failedAt = "write"
    /\ fs[TmpPath(domain)] = Partial(data)
    /\ Exists(start[PolPath(domain)])
    /\ fs[PolPath(domain)] = start[PolPath(domain)]

\* C13: when the process halts after the temp file was written and before
\* the rename, the policy file is as the pass found it, there or not, and the
\* temp file holds the whole bundle; and when a pass of the next run finds a
\* temp file left behind and no operation on the files fails, WritePolicies
\* returns no error, the policy file holds the whole bundle of that pass and
\* the temp file is gone.
C13_HaltBeforeRenameThenRerun ==
    /\ pc = "halted" =>
          /\ fs[PolPath(domain)] = cur.fs0[PolPath(domain)]
          /\ fs[TmpPath(domain)] = Marshal(data)
    /\ /\ run = 2 /\ pc = "return" /\ cur.writes
       /\ Exists(cur.fs0[TmpPath(domain)])
       /\ ~cur.ioFailed
       => /\ err = NoErr
          /\ cur.rename = "ok"
          /\ fs[PolPath(domain)] = Marshal(data)
          /\ ~Exists(fs[TmpPath(domain)])
\* the run after the halt found the temp file the halted run had written and
\* replaced a policy file that was missing by the bundle it fetched
C13_Witness ==
    /\ run = 2
    /\ pc = "return"
    /\ cur.writes
    /\ cur.fs0[TmpPath(domain)].kind = "json"
    /\ ~Exists(cur.fs0[PolPath(domain)])
    /\ cur.rename = "ok"
    /\ fs[PolPath(domain)] = Marshal(data)

\* C11: a file of the metrics directory is removed only by the deletion for
\* the domain of its name, after the report for that domain was accepted; and
\* when PostAllDomainMetric returns the error of a failed report, none of the
\* files of that domain was removed and those that were aggregated are there
\* with their content.
C11_DeleteOnlyAfterReport ==
    [][/\ \A n \in MetricNames :
             metricFiles[n] # NoMetricFile /\ metricFiles'[n] = NoMetricFile =>
                /\ mpc = "delete"
                /\ FirstPiece(n) = key
                /\ key \in DOMAIN posted
       /\ mpc' = "done" /\ postResult' = "postErr" =>
             /\ key' \notin DOMAIN posted'
             /\ \A n \in DOMAIN removed' : FirstPiece(n) # key'
             /\ \A n \in DOMAIN aggregated' :
                   FirstPiece(n) = key' => metricFiles'[n] = aggregated'[n]]_vars
\* the report for domain a failed after the files of domain b had been
\* reported and removed, and both files of a are still there
C11_Witness ==
    /\ mpc = "done"
    /\ postResult = "postErr"
    /\ key = <<"a">>
    /\ <<"b">> \in DOMAIN posted
    /\ <<"b", "_", "1">> \in DOMAIN removed
    /\ metricFiles[<<"a", "_", "1">>] = MetricFile("calls" :> 3)
    /\ metricFiles[<<"a", "_", "2">>] = MetricFile(("calls" :> 4) @@ ("denies" :> 1))

RECURSIVE SumOf(_, _, _)
\* the sum of the counts of a metric type over the files of these names
SumOf(files, names, type) ==
    IF names = {} THEN 0
    ELSE LET n == CHOOSE x \in names : TRUE
         IN  (IF type \in DOMAIN files[n].counts THEN files[n].counts[type] ELSE 0)
             + SumOf(files, names \ {n}, type)

\* C12: the payload accepted for a domain names the domain, has one entry for
\* every metric type found in any of the aggregated files whose name starts
\* with the domain before the first "_", the value of an entry is the sum of
\* the counts of its type over those files, and the entries come in the order
\* of the type names, in whatever order the directory and the maps were read.
C12_PayloadIsSortedSum ==
    \A d \in DOMAIN posted :
        LET names == {n \in DOMAIN aggregated : FirstPiece(n) = d}
            types == UNION {DOMAIN aggregated[n].counts : n \in names}
            list == posted[d].metricList
        IN  /\ posted[d].domainName = d
            /\ names # {}
            /\ Len(list) = Cardinality(types)
            /\ {list[i].metricType : i \in 1..Len(list)} = types
            /\ \A i \in 1..Len(list) :
                  list[i].metricVal = SumOf(aggregated, names, list[i].metricType)
            /\ \A i \in 1..(Len(list) - 1) :
                  Rank(list[i].metricType) < Rank(list[i + 1].metricType)
\* a_1 with 3 calls and a_2 with 4 calls and 1 deny were reported as 7 calls
\* and 1 deny
C12_Witness ==
    /\ <<"a">> \in DOMAIN posted
    /\ {<<"a", "_", "1">>, <<"a", "_", "2">>} \subseteq DOMAIN aggregated
    /\ aggregated[<<"a", "_", "1">>] = MetricFile("calls" :> 3)
    /\ aggregated[<<"a", "_", "2">>] = MetricFile(("calls" :> 4) @@ ("denies" :> 1))
    /\ posted[<<"a">>] =
          [domainName |-> <<"a">>,
           metricList |-> <<[metricType |-> "calls", metricVal |-> 7],
                            [metricType |-> "denies", metricVal |-> 1]>>]

\* C20 (as claimed): every file removed from the metrics directory had been
\* read by the aggregation, with the content it had when it was removed, and
\* the report for its domain had been accepted, whatever files the producers
\* write in between.
C20_NoCountsLostToDeletion ==
    \A n \in DOMAIN removed :
        /\ n \in DOMAIN aggregated
        /\ aggregated[n] = removed[n]
        /\ FirstPiece(n) \in DOMAIN posted
====
